---- MODULE Spec2Model ----
(***************************************************************************)
(* The hash-chained ledger of playground/projects/blockchain               *)
(* (src/blockchain.rs): Chain, Block, BlockHeader, Transaction, the Merkle *)
(* fold and the proof-of-work nonce search.                                *)
(*                                                                         *)
(* Strings are sequences of ASCII codes, so that slicing, parsing and hex  *)
(* rendering are computed character by character as the code does.        *)
(* u32 values that may approach 2^32 (the nonce, a parsed prefix) are kept *)
(* as two 16-bit limbs [hi, lo]; TLC's own integers are narrower than u32. *)
(***************************************************************************)
EXTENDS Integers, Sequences, FiniteSets, TLC

(***************************************************************************)
(* Bounds of the model.                                                    *)
(***************************************************************************)
\* the run is followed until the chain holds MaxBlocks blocks
MaxBlocks == 2
\* new_transaction is not called once MaxSubmitted transactions were submitted
MaxSubmitted == 2
\* the nonce search is followed for at most MaxAttempts rejected attempts
MaxAttempts == 8

\* get_merkle is called on its own with lists of 1..MaxLeaves transactions
MaxLeaves == 6

\* the test of proof_of_work is called on hashes starting with 0..MaxZeros
\* characters '0'
MaxZeros == 12

\* lists of 1..MaxDigests digests are rendered and folded
MaxDigests == 2

(***************************************************************************)
(* Input domains: what main.rs reads from the user, and the wall clock.    *)
(***************************************************************************)
\* "a"
Senders == {<<97>>}
\* "b"
Receivers == {<<98>>}
\* "m"
MinerAddresses == {<<109>>}
Amounts == {5, 9}
Rewards == {50, 100}
Difficulties == {0, 1, 2, 50}
\* Utc::now().timestamp_millis(); one reading keeps the chains few
Timestamps == {1}

(***************************************************************************)
(* u32 arithmetic on limbs.                                                *)
(***************************************************************************)
Limb == 65536

U32(n) == [hi |-> 0, lo |-> n]

U32Max == [hi |-> Limb - 1, lo |-> Limb - 1]

\* checked_mul by a small factor: ok = FALSE on overflow
U32CheckedMul(x, m) ==
    LET l == x.lo * m
        h == x.hi * m + (l \div Limb)
    IN  [ok |-> h < Limb, value |-> [hi |-> h % Limb, lo |-> l % Limb]]

\* checked_add of a small addend: ok = FALSE on overflow
U32CheckedAdd(x, a) ==
    LET l == x.lo + a
        h == x.hi + (l \div Limb)
    IN  [ok |-> h < Limb, value |-> [hi |-> h % Limb, lo |-> l % Limb]]

\* x / 10 and x % 10 by long division over the limbs
U32DivTen(x) ==
    LET r == (x.hi % 10) * Limb + x.lo
    IN  [quot |-> [hi |-> x.hi \div 10, lo |-> r \div 10], rem |-> r % 10]

(***************************************************************************)
(* serde_json::to_string: the canonical text that is hashed.               *)
(***************************************************************************)
RECURSIVE DecNat(_)
\* Display of a non-negative integer
DecNat(n) == IF n < 10 THEN <<48 + n>> ELSE DecNat(n \div 10) \o <<48 + (n % 10)>>

RECURSIVE DecU32(_)
\* Display of a u32
DecU32(x) ==
    LET d == U32DivTen(x)
    IN  IF x.hi = 0 /\ x.lo < 10 THEN <<48 + x.lo>>
        ELSE DecU32(d.quot) \o <<48 + d.rem>>

\* a JSON string: the characters between double quotes (none here needs escaping)
JsonString(s) == <<34>> \o s \o <<34>>

\* {"sender":"..","receiver":"..","amount":N.0}
JsonTransaction(t) ==
    <<123, 34, 115, 101, 110, 100, 101, 114, 34, 58>> \o JsonString(t.sender)
    \o <<44, 34, 114, 101, 99, 101, 105, 118, 101, 114, 34, 58>> \o JsonString(t.receiver)
    \o <<44, 34, 97, 109, 111, 117, 110, 116, 34, 58>> \o DecNat(t.amount)
    \o <<46, 48, 125>>

\* {"timestamp":N,"nonce":N,"prev_hash":"..","merkle":"..","difficulty":N}
JsonHeader(h) ==
    <<123, 34, 116, 105, 109, 101, 115, 116, 97, 109, 112, 34, 58>> \o DecNat(h.timestamp)
    \o <<44, 34, 110, 111, 110, 99, 101, 34, 58>> \o DecU32(h.nonce)
    \o <<44, 34, 112, 114, 101, 118, 95, 104, 97, 115, 104, 34, 58>> \o JsonString(h.prev_hash)
    \o <<44, 34, 109, 101, 114, 107, 108, 101, 34, 58>> \o JsonString(h.merkle)
    \o <<44, 34, 100, 105, 102, 102, 105, 99, 117, 108, 116, 121, 34, 58>> \o DecNat(h.difficulty)
    \o <<125>>

(***************************************************************************)
(* Chain::hash and Chain::bytes_to_hex_string.                             *)
(***************************************************************************)
\* a SHA-256 digest has 32 bytes
DigestBytes == 32

\* The sha2 crate is not part of the repository.  Sha256 stands for it: a
\* deterministic function of the whole input text (every character and the
\* length) giving DigestBytes bytes.  Its bytes are taken from a short
\* palette so that the digests the search needs (leading zero bytes, bytes
\* below 16) occur within a few attempts.
Palette == <<0, 0, 7, 16, 58, 153, 171, 240>>

Modulus == 32749

\* one absorption step
Mix(h, c) == (h * 7 + c) % Modulus

\* 7^8 modulo Modulus
MixEight == (7 * 7 * 7 * 7 * 7 * 7 * 7 * 7) % Modulus

\* the eight characters text[o+1..o+8] absorbed left to right
Group(text, o) ==
    (((((((text[o + 1] * 7 + text[o + 2]) * 7 + text[o + 3]) * 7 + text[o + 4]) * 7
        + text[o + 5]) * 7 + text[o + 6]) * 7 + text[o + 7]) * 7 + text[o + 8])
    % Modulus

RECURSIVE Absorb(_, _, _)
\* the groups lo..hi of text absorbed left to right (h) and 7^(8 * (hi - lo + 1))
\* (pw), both modulo Modulus, by halving the range
Absorb(text, lo, hi) ==
    IF lo > hi THEN [h |-> 0, pw |-> 1]
    ELSE IF lo = hi THEN [h |-> Group(text, 8 * (lo - 1)), pw |-> MixEight]
    ELSE LET mid == (lo + hi) \div 2
             l == Absorb(text, lo, mid)
             r == Absorb(text, mid + 1, hi)
         IN  [h |-> (l.h * r.pw + r.h) % Modulus, pw |-> (l.pw * r.pw) % Modulus]

\* the input is absorbed in groups of eight characters, the last one filled
\* with zeros, and its length last
Sha256(input) ==
    LET text == input \o <<0, 0, 0, 0, 0, 0, 0>>
        h == Mix(Absorb(text, 1, (Len(input) + 7) \div 8).h, Len(input))
    IN  [i \in 1..DigestBytes |->
            Palette[((((h + i) * (2 * i + 1) + i * i) % Modulus) % 8) + 1]]

HexDigit(n) == IF n < 10 THEN 48 + n ELSE 87 + n

\* write!(&mut string, "{:x}", byte): lowercase hex, no padding
FormatHex(byte) ==
    IF byte < 16 THEN <<HexDigit(byte)>>
    ELSE <<HexDigit(byte \div 16), HexDigit(byte % 16)>>

RECURSIVE HexFrom(_, _)
HexFrom(hex_vec, i) ==
    IF i > Len(hex_vec) THEN <<>>
    ELSE FormatHex(hex_vec[i]) \o HexFrom(hex_vec, i + 1)

bytes_to_hex_string(hex_vec) == HexFrom(hex_vec, 1)

\* Chain::hash over the serialized item
hash(input) == bytes_to_hex_string(Sha256(input))

HashHeader(header) == hash(JsonHeader(header))

HashTransaction(t) == hash(JsonTransaction(t))

HashString(s) == hash(JsonString(s))

(***************************************************************************)
(* str::parse::<u32>.                                                      *)
(***************************************************************************)
IsDigit(c) == c >= 48 /\ c <= 57

RECURSIVE ParseDigits_Wrapping(_, _, _)
\* mutant of ParseDigits: the multiplication by ten wraps instead of failing
ParseDigits_Wrapping(s, i, acc) ==
    IF i > Len(s) THEN [ok |-> TRUE, value |-> acc]
    ELSE IF ~IsDigit(s[i]) THEN [ok |-> FALSE, value |-> acc]
    ELSE LET a == U32CheckedAdd(U32CheckedMul(acc, 10).value, s[i] - 48)
         IN  IF a.ok THEN ParseDigits_Wrapping(s, i + 1, a.value)
             ELSE [ok |-> FALSE, value |-> acc]

RECURSIVE ParseDigits(_, _, _)
\* the digits s[i..] accumulated onto acc with checked_mul and checked_add;
\* a character that is no decimal digit, or an overflow, gives Err
ParseDigits(s, i, acc) ==
    IF i > Len(s) THEN [ok |-> TRUE, value |-> acc]
    ELSE IF ~IsDigit(s[i]) THEN [ok |-> FALSE, value |-> acc]
    ELSE LET m == U32CheckedMul(acc, 10)
             a == U32CheckedAdd(m.value, s[i] - 48)
         IN  IF m.ok /\ a.ok THEN ParseDigits(s, i + 1, a.value)
             ELSE [ok |-> FALSE, value |-> acc]

\* Ok(value) or Err(_): the empty string and a lone sign are errors, one
\* leading '+' is accepted
ParseU32(s) ==
    IF Len(s) = 0 THEN [ok |-> FALSE, value |-> U32(0)]
    ELSE IF s[1] = 43
         THEN IF Len(s) = 1 THEN [ok |-> FALSE, value |-> U32(0)]
              ELSE ParseDigits(s, 2, U32(0))
    ELSE ParseDigits(s, 1, U32(0))

(***************************************************************************)
(* The ledger.                                                             *)
(***************************************************************************)
VARIABLES
    blocks,                 \* Chain.blocks
    current_transactions,   \* Chain.current_transactions (the pending pool)
    difficulty,             \* Chain.difficulty
    miner_address,          \* Chain.miner_address
    reward,                 \* Chain.reward
    pc,                     \* where the calling thread is
    block,                  \* the local `block` of generate_new_block
    attempts,               \* iterations of the proof_of_work loop so far
    submitted,              \* every transaction passed to new_transaction, in order
    ret,                    \* the value the last completed call returned
    call                    \* a function called on its own: arguments, progress, result

vars == <<blocks, current_transactions, difficulty, miner_address, reward,
          pc, block, attempts, submitted, ret, call>>

\* the variables of the ledger and of its caller
ledger == <<blocks, current_transactions, difficulty, miner_address, reward,
            pc, block, attempts, submitted, ret>>

\* no function is called on its own
NoCall == [pc |-> "none"]

\* mutant of ZeroHash: vec![0; 64], NUL bytes instead of the character '0'
ZeroHash_NulBytes == [i \in 1..64 |-> 0]

\* String::from_utf8(vec![48; 64])
ZeroHash == [i \in 1..64 |-> 48]

\* String::from("Root")
Root == <<82, 111, 111, 116>>

NoBlock == [header |-> [timestamp |-> 0, nonce |-> U32(0), prev_hash |-> <<>>,
                        merkle |-> <<>>, difficulty |-> 0],
            count |-> 0, transactions |-> <<>>]

\* mutant of last_hash: hashes the last header as it was before the search
last_hash_Unsealed(bs) ==
    IF Len(bs) = 0 THEN ZeroHash
    ELSE HashHeader([bs[Len(bs)].header EXCEPT !.nonce = U32(0)])

last_hash(bs) ==
    IF Len(bs) = 0 THEN ZeroHash
    ELSE HashHeader(bs[Len(bs)].header)

\* mutant of MerkleStep: the hash of the pair is not pushed back
MerkleStep_NoPush(merkle) == SubSeq(merkle, 3, Len(merkle))

\* one iteration of the while loop of get_merkle: remove the first two
\* entries, hash their concatenation, push the result at the end
MerkleStep(merkle) ==
    Append(SubSeq(merkle, 3, Len(merkle)), HashString(merkle[1] \o merkle[2]))

RECURSIVE MerkleLoop(_)
\* while merkle.len() > 1
MerkleLoop(merkle) ==
    IF Len(merkle) > 1 THEN MerkleLoop(MerkleStep(merkle)) ELSE merkle

\* None.unwrap()
Panicked == <<"panic">>

\* the for loop of get_merkle: one hash per transaction
MerkleLeaves(transactions) ==
    [i \in 1..Len(transactions) |-> HashTransaction(transactions[i])]

\* mutant of MerklePad: an odd list is left as it is
MerklePad_None(merkle) == merkle

\* if merkle.len() % 2 == 1, push a copy of the last hash
MerklePad(merkle) ==
    IF Len(merkle) % 2 = 1 THEN Append(merkle, merkle[Len(merkle)]) ELSE merkle

\* merkle.pop().unwrap()
MerklePop(merkle) ==
    IF Len(merkle) = 0 THEN Panicked ELSE merkle[Len(merkle)]

\* get_merkle from the padding on, over the hashes of the transactions
MerkleRoot(leaves) == MerklePop(MerkleLoop(MerklePad(leaves)))

get_merkle(transactions) == MerkleRoot(MerkleLeaves(transactions))

\* mutant of RewardTransaction: the amount is the initial reward, whatever
\* the ledger's reward is now
RewardTransaction_InitialReward(miner, amount) ==
    [sender |-> Root, receiver |-> miner, amount |-> 100]

\* the reward transaction of generate_new_block
RewardTransaction(miner, amount) ==
    [sender |-> Root, receiver |-> miner, amount |-> amount]

\* mutant of BlockTransactions: the pending pool is left out of the block
BlockTransactions_RewardOnly(reward_transaction, pending) == <<reward_transaction>>

\* mutant of BlockTransactions: the reward transaction is pushed after the
\* pending ones
BlockTransactions_RewardLast(reward_transaction, pending) ==
    Append(pending, reward_transaction)

\* block.transactions after the push and the append
BlockTransactions(reward_transaction, pending) ==
    <<reward_transaction>> \o pending

\* &hash[..header.difficulty as usize] is in range
SliceInRange(h, header) == header.difficulty <= Len(h)

\* mutant of Accepted: breaks on any Ok(value), without the test value == 0
Accepted_AnyOk(h, header) ==
    ParseU32(SubSeq(h, 1, header.difficulty)).ok

\* the match of proof_of_work takes the break
Accepted(h, header) ==
    LET parsed == ParseU32(SubSeq(h, 1, header.difficulty))
    IN  parsed.ok /\ parsed.value = U32(0)

\* mutant of Init: Chain::new returns without creating the genesis block
Init_NoGenesis ==
    /\ blocks = <<>>
    /\ current_transactions = <<>>
    /\ difficulty \in Difficulties
    /\ miner_address \in MinerAddresses
    /\ reward = 100
    /\ pc = "idle"
    /\ block = NoBlock
    /\ attempts = 0
    /\ submitted = <<>>
    /\ ret = "none"
    /\ call = NoCall

Init ==
    /\ blocks = <<>>
    /\ current_transactions = <<>>
    /\ difficulty \in Difficulties
    /\ miner_address \in MinerAddresses
    /\ reward = 100
    /\ pc = "new"
    /\ block = NoBlock
    /\ attempts = 0
    /\ submitted = <<>>
    /\ ret = "none"
    /\ call = NoCall

\* mutant of NewBlock: the Merkle root is computed before the pending
\* transactions are appended
NewBlock_MerkleBeforeAppend(now, bs, pending, d, miner, amount) ==
    LET reward_transaction == RewardTransaction(miner, amount)
        transactions == BlockTransactions(reward_transaction, pending)
    IN  [header |-> [timestamp |-> now, nonce |-> U32(0),
                     prev_hash |-> last_hash(bs),
                     merkle |-> get_merkle(<<reward_transaction>>),
                     difficulty |-> d],
         count |-> Len(transactions),
         transactions |-> transactions]

\* the local `block` of generate_new_block when proof_of_work is called:
\* header, reward transaction, transactions, count, merkle
NewBlock(now, bs, pending, d, miner, amount) ==
    LET block_header == [timestamp |-> now, nonce |-> U32(0),
                         prev_hash |-> last_hash(bs),
                         merkle |-> <<>>, difficulty |-> d]
        transactions == BlockTransactions(RewardTransaction(miner, amount), pending)
    IN  [header |-> [block_header EXCEPT !.merkle = get_merkle(transactions)],
         count |-> Len(transactions),
         transactions |-> transactions]

\* generate_new_block up to the call of proof_of_work; called by Chain::new
\* (pc = "new") and by main (pc = "idle")
GenerateNewBlock ==
    /\ pc \in {"new", "idle"}
    /\ Len(blocks) < MaxBlocks
    /\ \E now \in Timestamps :
         block' = NewBlock(now, blocks, current_transactions, difficulty,
                           miner_address, reward)
    /\ current_transactions' = <<>>
    /\ pc' = IF pc = "new" THEN "genesis" ELSE "mining"
    /\ attempts' = 0
    /\ UNCHANGED <<blocks, difficulty, miner_address, reward, submitted, ret, call>>

\* mutant of PushBlock: the block is inserted at the front
PushBlock_Front(bs, b) == <<b>> \o bs

\* self.blocks.push(block)
PushBlock(bs, b) == Append(bs, b)

\* mutant of NonceIncrement: the search steps by two
NonceIncrement_ByTwo(nonce) == U32CheckedAdd(nonce, 2).value

\* header.nonce += 1, below u32::MAX
NonceIncrement(nonce) == U32CheckedAdd(nonce, 1).value

\* what `header.nonce += 1` can do at u32::MAX: abort (overflow checks on) or
\* wrap to 0 (overflow checks off)
OverflowOutcomes == {"panic", "wrap"}

\* one iteration of the loop of proof_of_work; on the break, the rest of
\* generate_new_block: push the block and return true
ProofOfWork ==
    /\ pc \in {"genesis", "mining"}
    /\ attempts < MaxAttempts
    /\ LET h == HashHeader(block.header)
       IN  IF ~SliceInRange(h, block.header)
           THEN /\ pc' = "panic"
                /\ UNCHANGED <<blocks, block, attempts, ret>>
           ELSE IF Accepted(h, block.header)
           THEN /\ blocks' = PushBlock(blocks, block)
                /\ block' = NoBlock
                /\ pc' = "idle"
                /\ attempts' = 0
                /\ ret' = IF pc = "genesis" THEN ret ELSE TRUE
           ELSE IF block.header.nonce = U32Max
           THEN \E outcome \in OverflowOutcomes :
                  /\ pc' = IF outcome = "panic" THEN "panic" ELSE pc
                  /\ block' = IF outcome = "panic" THEN block
                              ELSE [block EXCEPT !.header.nonce = U32(0)]
                  /\ attempts' = attempts + 1
                  /\ UNCHANGED <<blocks, ret>>
           ELSE /\ block' = [block EXCEPT !.header.nonce =
                                NonceIncrement(block.header.nonce)]
                /\ attempts' = attempts + 1
                /\ UNCHANGED <<blocks, pc, ret>>
    /\ UNCHANGED <<current_transactions, difficulty, miner_address, reward, submitted,
                   call>>

\* mutant of new_transaction: the transaction is inserted at the front
new_transaction_Front(pending, sender, receiver, amount) ==
    <<[sender |-> sender, receiver |-> receiver, amount |-> amount]>> \o pending

\* the pending pool after new_transaction
new_transaction(pending, sender, receiver, amount) ==
    Append(pending, [sender |-> sender, receiver |-> receiver, amount |-> amount])

NewTransaction ==
    /\ pc = "idle"
    /\ Len(blocks) < MaxBlocks
    /\ Len(submitted) < MaxSubmitted
    /\ \E sender \in Senders, receiver \in Receivers, amount \in Amounts :
         /\ current_transactions' =
                new_transaction(current_transactions, sender, receiver, amount)
         /\ submitted' = Append(submitted, <<sender, receiver, amount>>)
    /\ ret' = TRUE
    /\ UNCHANGED <<blocks, difficulty, miner_address, reward, pc, block, attempts,
                   call>>

\* mutant of UpdateDifficulty: the last stored header is retargeted too
UpdateDifficulty_Retarget ==
    /\ pc = "idle"
    /\ Len(blocks) < MaxBlocks
    /\ \E value \in Difficulties :
         /\ difficulty' = value
         /\ blocks' = [blocks EXCEPT ![Len(blocks)].header.difficulty = value]
    /\ ret' = TRUE
    /\ UNCHANGED <<current_transactions, miner_address, reward, pc, block,
                   attempts, submitted, call>>

UpdateDifficulty ==
    /\ pc = "idle"
    /\ Len(blocks) < MaxBlocks
    /\ \E value \in Difficulties : difficulty' = value
    /\ ret' = TRUE
    /\ UNCHANGED <<blocks, current_transactions, miner_address, reward, pc, block,
                   attempts, submitted, call>>

UpdateReward ==
    /\ pc = "idle"
    /\ Len(blocks) < MaxBlocks
    /\ \E value \in Rewards : reward' = value
    /\ ret' = TRUE
    /\ UNCHANGED <<blocks, current_transactions, difficulty, miner_address, pc, block,
                   attempts, submitted, call>>

Next ==
    \/ GenerateNewBlock
    \/ ProofOfWork
    \/ NewTransaction
    \/ UpdateDifficulty
    \/ UpdateReward

Spec == Init /\ [][Next]_vars

(***************************************************************************)
(* get_merkle called on its own, one iteration of its loop per step.  With *)
(* every entry of the working list goes the set of the positions, in the   *)
(* padded list of leaves, of the leaves it summarizes.                     *)
(***************************************************************************)
\* the ledger is not involved in a call of an associated function
NoChain ==
    /\ blocks = <<>>
    /\ current_transactions = <<>>
    /\ difficulty = 1
    /\ miner_address = <<109>>
    /\ reward = 100
    /\ pc = "new"
    /\ block = NoBlock
    /\ attempts = 0
    /\ submitted = <<>>
    /\ ret = "none"

Transactions ==
    {[sender |-> s, receiver |-> r, amount |-> a] :
        s \in Senders, r \in Receivers, a \in Amounts}

RECURSIVE Lists(_, _)
\* the lists of n elements of S
Lists(S, n) ==
    IF n = 0 THEN {<<>>}
    ELSE {Append(l, x) : l \in Lists(S, n - 1), x \in S}

MerkleInit ==
    /\ NoChain
    /\ \E n \in 1..MaxLeaves : \E transactions \in Lists(Transactions, n) :
         call = [pc |-> "entry", current_transactions |-> transactions]

\* the for loop and the padding
MerkleEnter ==
    /\ call.pc = "entry"
    /\ LET merkle == MerklePad(MerkleLeaves(call.current_transactions))
       IN  call' = [pc |-> "loop",
                    current_transactions |-> call.current_transactions,
                    merkle |-> merkle,
                    leaves |-> [i \in 1..Len(merkle) |-> {i}],
                    steps |-> 0]
    /\ UNCHANGED ledger

\* one iteration of the while loop
MerkleIterate ==
    /\ call.pc = "loop"
    /\ Len(call.merkle) > 1
    /\ call' = [call EXCEPT
                  !.merkle = MerkleStep(call.merkle),
                  !.leaves = Append(SubSeq(call.leaves, 3, Len(call.leaves)),
                                    call.leaves[1] \cup call.leaves[2]),
                  !.steps = call.steps + 1]
    /\ UNCHANGED ledger

\* the loop is left and the last entry popped
MerkleReturn ==
    /\ call.pc = "loop"
    /\ Len(call.merkle) <= 1
    /\ call' = [pc |-> "done",
                current_transactions |-> call.current_transactions,
                steps |-> call.steps,
                root |-> MerklePop(call.merkle)]
    /\ UNCHANGED ledger

MerkleNext ==
    \/ MerkleEnter
    \/ MerkleIterate
    \/ MerkleReturn

MerkleSpec == MerkleInit /\ [][MerkleNext]_vars

(***************************************************************************)
(* The test of proof_of_work on its own: a hash string and a difficulty    *)
(* d >= 1 not above its length.                                            *)
(***************************************************************************)
\* what follows the leading zeros: nothing, digits, hex letters, the largest
\* u32 (4294967295), the value after it (4294967296), ten digits 9, and
\* 21474836480 (five times 2^32)
HashTails ==
    {<<>>, <<49>>, <<55>>, <<97>>, <<102>>, <<49, 48>>, <<97, 48, 48>>,
     <<52, 50, 57, 52, 57, 54, 55, 50, 57, 53>>,
     <<52, 50, 57, 52, 57, 54, 55, 50, 57, 54>>,
     <<57, 57, 57, 57, 57, 57, 57, 57, 57, 57>>,
     <<50, 49, 52, 55, 52, 56, 51, 54, 52, 56, 48>>}

SealInit ==
    /\ NoChain
    /\ \E zeros \in 0..MaxZeros, tail \in HashTails :
         LET h == [i \in 1..zeros |-> 48] \o tail
         IN  \E d \in 1..Len(h) :
                call = [pc |-> "entry", hash |-> h,
                        header |-> [NoBlock.header EXCEPT !.difficulty = d]]

\* the slice and the match of one iteration of proof_of_work
SealTest ==
    /\ call.pc = "entry"
    /\ call' = [pc |-> "done", hash |-> call.hash, header |-> call.header,
                break |-> /\ SliceInRange(call.hash, call.header)
                          /\ Accepted(call.hash, call.header)]
    /\ UNCHANGED ledger

SealNext == SealTest

SealSpec == SealInit /\ [][SealNext]_vars

(***************************************************************************)
(* The rendering of digests and the fold of get_merkle over them: two      *)
(* lists of transactions of the same length, each transaction given by its *)
(* SHA-256 digest (another digest, another transaction).                   *)
(***************************************************************************)
\* the first three bytes of a digest; the other bytes are 0xab
DigestHeads ==
    {<<1, 0, 16>>, <<16, 1, 0>>, <<1, 0, 171>>, <<171, 16, 171>>,
     <<16, 171, 171>>, <<171, 171, 171>>}

Digests == {head \o [i \in 1..(DigestBytes - 3) |-> 171] : head \in DigestHeads}

DigestInit ==
    /\ NoChain
    /\ \E n \in 1..MaxDigests :
         \E first \in Lists(Digests, n), second \in Lists(Digests, n) :
            call = [pc |-> "entry", first |-> first, second |-> second]

\* Chain::hash after finalize, for every transaction of the two lists
DigestRender ==
    /\ call.pc = "entry"
    /\ call' = [pc |-> "hashed", first |-> call.first, second |-> call.second,
                merkle_first |->
                    [i \in 1..Len(call.first) |-> bytes_to_hex_string(call.first[i])],
                merkle_second |->
                    [i \in 1..Len(call.second) |-> bytes_to_hex_string(call.second[i])]]
    /\ UNCHANGED ledger

\* get_merkle from the padding on, for the two lists
DigestFold ==
    /\ call.pc = "hashed"
    /\ call' = [pc |-> "done", first |-> call.first, second |-> call.second,
                merkle_first |-> call.merkle_first,
                merkle_second |-> call.merkle_second,
                root_first |-> MerkleRoot(call.merkle_first),
                root_second |-> MerkleRoot(call.merkle_second)]
    /\ UNCHANGED ledger

DigestNext ==
    \/ DigestRender
    \/ DigestFold

DigestSpec == DigestInit /\ [][DigestNext]_vars

(***************************************************************************)
(* The end of a search no nonce satisfies: Chain::new with difficulty 0,   *)
(* where the slice is "" and every nonce is rejected, once the nonces      *)
(* below u32::MAX - k have been tried.                                     *)
(***************************************************************************)
ExhaustMiners == {<<109>>, <<110>>}

ExhaustInit ==
    /\ blocks = <<>>
    /\ current_transactions = <<>>
    /\ difficulty = 0
    /\ miner_address \in ExhaustMiners
    /\ reward = 100
    /\ pc = "genesis"
    /\ \E now \in Timestamps, k \in 0..MaxAttempts :
         block = [NewBlock(now, <<>>, <<>>, 0, miner_address, 100)
                     EXCEPT !.header.nonce = [hi |-> Limb - 1, lo |-> Limb - 1 - k]]
    /\ attempts = 0
    /\ submitted = <<>>
    /\ ret = "none"
    /\ call = NoCall

ExhaustNext == ProofOfWork

ExhaustSpec == ExhaustInit /\ [][ExhaustNext]_vars

(***************************************************************************)
(* Properties.                                                             *)
(***************************************************************************)
Mining == pc \in {"genesis", "mining"}

\* generate_new_block has built its block and enters proof_of_work
Begins == pc \in {"new", "idle"} /\ pc' \in {"genesis", "mining"}

\* proof_of_work has returned and generate_new_block pushes its block
Commits == Mining /\ pc' = "idle"

\* C1: for every index i > 0 (the blocks are numbered from 1 here), the stored
\* prev_hash of a block is the hash of its predecessor's stored header, final
\* nonce included.
C1_ChainLinkage ==
    \A i \in 2..Len(blocks) :
        blocks[i].header.prev_hash = HashHeader(blocks[i - 1].header)

\* a second block follows a block whose search ended at a nonce above 0
C1_Witness ==
    /\ Len(blocks) >= 2
    /\ blocks[1].header.nonce # U32(0)

\* C2: the hash of every stored header, cut to the difficulty recorded in that
\* header, parses as the integer zero.
C2_ProofOfWorkSeal ==
    \A i \in 1..Len(blocks) :
        LET header == blocks[i].header
            h == HashHeader(header)
            parsed == ParseU32(SubSeq(h, 1, header.difficulty))
        IN  /\ header.difficulty <= Len(h)
            /\ parsed.ok
            /\ parsed.value = U32(0)

\* a stored block of recorded difficulty 2 that needed a search, while the
\* ledger's difficulty is another one
C2_Witness ==
    \E i \in 1..Len(blocks) :
        /\ blocks[i].header.difficulty = 2
        /\ blocks[i].header.nonce # U32(0)
        /\ difficulty # 2

\* C3: with difficulty 0 the search accepts the header on its first attempt,
\* so the nonce of a header of difficulty 0 is still 0 while and after it is
\* searched.
C3_DifficultyZeroSealsAtOnce ==
    /\ (Mining /\ block.header.difficulty = 0) => block.header.nonce = U32(0)
    /\ \A i \in 1..Len(blocks) :
          blocks[i].header.difficulty = 0 => blocks[i].header.nonce = U32(0)

\* C4: for a difficulty d with 1 <= d < 64, generate_new_block does not abort
\* while it takes the first d characters of a header hash.
C4_SliceNeverAborts ==
    ~(/\ pc = "panic"
      /\ block.header.difficulty >= 1
      /\ block.header.difficulty < 64
      /\ ~SliceInRange(HashHeader(block.header), block.header))

\* C5: the block generate_new_block builds holds the reward transaction
\* followed by the pending pool P in the same order, with count = Len(P) + 1;
\* the pool is emptied; the search leaves the transactions alone, and the
\* block pushed at the end holds them, the pool still being empty.
C5_BlockContent ==
    [][ /\ Begins =>
             /\ block'.transactions =
                    <<[sender |-> Root, receiver |-> miner_address, amount |-> reward]>>
                    \o current_transactions
             /\ block'.count = Len(current_transactions) + 1
             /\ current_transactions' = <<>>
        /\ (Mining /\ pc' = pc) =>
             /\ block'.transactions = block.transactions
             /\ block'.count = block.count
        /\ Commits =>
             /\ Len(blocks') = Len(blocks) + 1
             /\ blocks'[Len(blocks')].transactions = block.transactions
             /\ blocks'[Len(blocks')].count = block.count
             /\ current_transactions' = <<>>
      ]_vars

\* a block made from a pool of two different transactions, and one made from
\* an empty pool
C5_Witness ==
    /\ \E i \in 1..Len(blocks) :
          /\ blocks[i].count = 3
          /\ blocks[i].transactions[2] # blocks[i].transactions[3]
    /\ \E i \in 1..Len(blocks) : blocks[i].count = 1
    /\ current_transactions = <<>>

\* C6: the merkle field of every stored header is get_merkle of the block's
\* stored transactions, in every reachable state; the block under search
\* satisfies it too.
C6_MerkleBinding ==
    /\ \A i \in 1..Len(blocks) :
          blocks[i].header.merkle = get_merkle(blocks[i].transactions)
    /\ Mining => block.header.merkle = get_merkle(block.transactions)

\* a stored block made of the reward and two pending transactions, the odd
\* number of leaves padded
C6_Witness ==
    /\ \E i \in 1..Len(blocks) : Len(blocks[i].transactions) = 3
    /\ pc = "idle"

\* C7: the first transaction of a block is {Root, miner_address, reward} with
\* the reward at the moment generate_new_block is called; no step changes the
\* first transaction of a stored block; the genesis reward is 100.
C7_RewardTransaction ==
    [][ /\ Begins =>
             block'.transactions[1] =
                 [sender |-> Root, receiver |-> miner_address, amount |-> reward]
        /\ (Mining /\ pc' = pc) => block'.transactions[1] = block.transactions[1]
        /\ Commits => blocks'[Len(blocks')].transactions[1] = block.transactions[1]
        /\ \A i \in 1..Len(blocks) :
             /\ i <= Len(blocks')
             /\ blocks'[i].transactions[1] = blocks[i].transactions[1]
        /\ Len(blocks') >= 1 => blocks'[1].transactions[1].amount = 100
      ]_vars

\* a second block rewarded 50 after update_reward(50), genesis still at 100
C7_Witness ==
    /\ Len(blocks) >= 2
    /\ blocks[1].transactions[1].amount = 100
    /\ blocks[2].transactions[1].amount = 50

\* C8: once Chain::new has returned (the caller is in the menu loop, or in a
\* generate_new_block it called from there), blocks is not empty.
C8_NonEmptyChain ==
    pc \in {"idle", "mining"} => Len(blocks) >= 1

\* the ledger as Chain::new returned it, after later operations
C8_Witness ==
    /\ pc = "idle"
    /\ Len(blocks) = 1
    /\ current_transactions # <<>>
    /\ reward = 50

\* C9: the prev_hash of the first block is 64 characters '0'; last_hash gives
\* that sentinel exactly when blocks is empty, so no later block has it.
C9_GenesisSentinel ==
    LET sentinel == [i \in 1..64 |-> 48]
    IN  /\ Len(blocks) >= 1 => blocks[1].header.prev_hash = sentinel
        /\ \A i \in 2..Len(blocks) : blocks[i].header.prev_hash # sentinel
        /\ (last_hash(blocks) = sentinel) <=> (Len(blocks) = 0)
        /\ Mining => ((block.header.prev_hash = sentinel) <=> (Len(blocks) = 0))

\* a chain with a block after the genesis block
C9_Witness ==
    /\ Len(blocks) >= 2
    /\ blocks[1].header.prev_hash = [i \in 1..64 |-> 48]

\* C10: a new_transaction step returns true, appends the transaction made of
\* its three arguments at the end of the pending pool, and leaves blocks,
\* difficulty, reward and miner_address unchanged.
C10_NewTransaction ==
    [][ submitted' # submitted =>
          LET args == submitted'[Len(submitted')]
          IN  /\ Len(submitted') = Len(submitted) + 1
              /\ ret' = TRUE
              /\ current_transactions' =
                     Append(current_transactions,
                            [sender |-> args[1], receiver |-> args[2],
                             amount |-> args[3]])
              /\ blocks' = blocks
              /\ difficulty' = difficulty
              /\ reward' = reward
              /\ miner_address' = miner_address
      ]_vars

\* a second, different transaction was appended behind a pending one
C10_Witness ==
    /\ Len(current_transactions) = 2
    /\ current_transactions[1] # current_transactions[2]
    /\ ret = TRUE

\* C11: a step that changes the ledger's difficulty is an update_difficulty
\* call from the menu: it returns true and leaves blocks and the pending pool
\* unchanged. The header generate_new_block builds carries the ledger's
\* difficulty of that moment, the search and the push keep it, and no step
\* changes the difficulty recorded in a stored header.
C11_DifficultyUpdate ==
    [][ /\ difficulty' # difficulty =>
             /\ pc = "idle" /\ pc' = "idle"
             /\ ret' = TRUE
             /\ blocks' = blocks
             /\ current_transactions' = current_transactions
        /\ Begins => block'.header.difficulty = difficulty
        /\ (Mining /\ pc' # "idle") =>
             block'.header.difficulty = block.header.difficulty
        /\ Commits =>
             blocks'[Len(blocks')].header.difficulty = block.header.difficulty
        /\ \A i \in 1..Len(blocks) :
             /\ i <= Len(blocks')
             /\ blocks'[i].header.difficulty = blocks[i].header.difficulty
      ]_vars

\* a block sealed at difficulty 1, the difficulty updated to 2, and a second
\* block sealed at 2
C11_Witness ==
    /\ Len(blocks) = 2
    /\ blocks[1].header.difficulty = 1
    /\ blocks[2].header.difficulty = 2
    /\ difficulty = 2

\* C12: at every step the previous value of blocks is a prefix of the new
\* one, stored blocks unchanged in every field; blocks grows by exactly one
\* block on the step that completes generate_new_block and not at all on any
\* other step.
C12_AppendOnly ==
    [][ /\ Len(blocks') >= Len(blocks)
        /\ SubSeq(blocks', 1, Len(blocks)) = blocks
        /\ Commits => Len(blocks') = Len(blocks) + 1
        /\ ~Commits => blocks' = blocks
      ]_vars

\* a chain of two different blocks, transactions having been submitted
C12_Witness ==
    /\ Len(blocks) = 2
    /\ blocks[1] # blocks[2]
    /\ submitted # <<>>
    /\ pc = "idle"

\* the header with the nonce n passes the test of proof_of_work
Seals(header, n) ==
    LET tried == [header EXCEPT !.nonce = U32(n)]
        h == HashHeader(tried)
    IN  SliceInRange(h, tried) /\ Accepted(h, tried)

\* C16: the search starts at nonce 0; a step that rejects a header adds 1 to
\* the nonce and changes no other field of the header; the block pushed has
\* the searched header, whose nonce passes the test while no smaller nonce
\* does.
C16_SmallestNonce ==
    [][ /\ Begins => block'.header.nonce = U32(0)
        /\ (Mining /\ pc' = pc) =>
             /\ ~Seals(block.header, block.header.nonce.lo)
             /\ block'.header =
                    [block.header EXCEPT !.nonce = U32(block.header.nonce.lo + 1)]
        /\ Commits =>
             /\ blocks'[Len(blocks')].header = block.header
             /\ block.header.nonce.hi = 0
             /\ Seals(block.header, block.header.nonce.lo)
             /\ \A n \in 0..(block.header.nonce.lo - 1) : ~Seals(block.header, n)
      ]_vars

\* a stored block whose search rejected the nonces 0, 1 and 2 at least
C16_Witness ==
    \E i \in 1..Len(blocks) : blocks[i].header.nonce.lo >= 3

\* the submitted transactions a chain holds: every block's transactions
\* without the first, the reward
RECURSIVE Included(_)
Included(bs) ==
    IF bs = <<>> THEN <<>>
    ELSE Included(SubSeq(bs, 1, Len(bs) - 1)) \o Tail(bs[Len(bs)].transactions)

\* C17: between two operations, the transactions of the blocks without each
\* block's first one, followed by the pending pool, are the submitted
\* transactions in the order of submission; inside generate_new_block the
\* block under search holds what the pool held.
C17_Conservation ==
    LET history == [i \in 1..Len(submitted) |->
                       [sender |-> submitted[i][1], receiver |-> submitted[i][2],
                        amount |-> submitted[i][3]]]
    IN  /\ pc = "idle" => Included(blocks) \o current_transactions = history
        /\ Mining =>
              Included(blocks) \o Tail(block.transactions) \o current_transactions
                  = history

\* two different transactions, submitted in this order, now in the second
\* block
C17_Witness ==
    /\ pc = "idle"
    /\ Len(blocks) = 2
    /\ Len(blocks[2].transactions) = 3
    /\ Len(submitted) = 2
    /\ submitted[1] # submitted[2]

\* C13: whenever get_merkle hashes a concatenation, every leaf summarized by
\* the first operand comes earlier in the padded list of leaves than every
\* leaf summarized by the second operand.
C13_PositionalPairing ==
    (call.pc = "loop" /\ Len(call.merkle) > 1) =>
        \A first \in call.leaves[1], second \in call.leaves[2] : first < second

\* C15: for a list L of odd length the root is the root of L followed by a
\* copy of its last transaction, and the working list starts as the hashes
\* of L followed by a copy of the last; for a list of even length the working
\* list starts as the hashes of L and nothing else.
C15_OddPadding ==
    LET L == call.current_transactions
        odd == Len(L) % 2 = 1
        doubled == Append(L, L[Len(L)])
    IN  /\ (call.pc = "loop" /\ call.steps = 0) =>
              call.merkle = IF odd THEN MerkleLeaves(doubled) ELSE MerkleLeaves(L)
        /\ (call.pc = "done" /\ odd) => call.root = get_merkle(doubled)
        /\ (call.pc = "done" /\ odd) => get_merkle(L) = get_merkle(doubled)

\* the root of a list of three transactions, the last different from the
\* other two
C15_Witness ==
    /\ call.pc = "done"
    /\ Len(call.current_transactions) = 3
    /\ call.current_transactions[3] # call.current_transactions[1]
    /\ call.current_transactions[1] = call.current_transactions[2]

\* C18: for a list of n >= 1 transactions, with m = n rounded up to even, the
\* working list has m - k entries after k iterations, so it is never empty
\* and shrinks by one per iteration; get_merkle returns a hash after m - 1
\* iterations.
C18_MerkleTerminates ==
    LET n == Len(call.current_transactions)
        m == n + (n % 2)
    IN  /\ call.pc = "loop" =>
              /\ Len(call.merkle) = m - call.steps
              /\ Len(call.merkle) >= 1
        /\ call.pc = "done" =>
              /\ call.steps = m - 1
              /\ call.root # Panicked
              /\ Len(call.root) >= DigestBytes

\* get_merkle has returned for a list of five transactions, after five
\* iterations over six leaves
C18_Witness ==
    /\ call.pc = "done"
    /\ Len(call.current_transactions) = 5
    /\ call.steps = 5

\* C14: the hashes being collision-free (different transactions have
\* different digests and different hash strings), two lists of the same
\* length that differ as sequences have different roots.
C14_OrderSensitive ==
    LET all == {call.first[i] : i \in 1..Len(call.first)}
                   \cup {call.second[i] : i \in 1..Len(call.second)}
        collision_free ==
            \A x \in all, y \in all :
                x # y => bytes_to_hex_string(x) # bytes_to_hex_string(y)
    IN  (call.pc = "done" /\ collision_free /\ call.first # call.second) =>
            call.root_first # call.root_second

\* C19: for a difficulty d >= 1 and a hash of at least d hexadecimal
\* characters, the test of proof_of_work takes the break exactly when the
\* first d characters are all '0'.
C19_SealingPredicate ==
    call.pc = "done" =>
        (call.break <=> \A i \in 1..call.header.difficulty : call.hash[i] = 48)

\* a prefix of more than ten '0' is accepted, characters following it
C19_Witness ==
    /\ call.pc = "done"
    /\ call.break
    /\ call.header.difficulty > 10
    /\ Len(call.hash) > call.header.difficulty

\* C20: every byte is rendered as two characters, so every hash of a 32-byte
\* digest has 64 characters and different digests have different hashes.
C20_FixedWidthHex ==
    call.pc \in {"hashed", "done"} =>
        /\ \A i \in 1..Len(call.first) :
              Len(call.merkle_first[i]) = 2 * Len(call.first[i])
        /\ \A i \in 1..Len(call.first), j \in 1..Len(call.second) :
              call.first[i] # call.second[j] =>
                  call.merkle_first[i] # call.merkle_second[j]

\* C21: a step of the search that changes the nonce makes it larger, so it
\* stays within the u32 range without wrapping around to a nonce already
\* rejected, and the search does not abort on the increment: it aborts only
\* on a slice out of range.
C21_NonceRange ==
    [][ Mining =>
          /\ (pc' = pc /\ block'.header.nonce # block.header.nonce) =>
                \/ block'.header.nonce.hi > block.header.nonce.hi
                \/ /\ block'.header.nonce.hi = block.header.nonce.hi
                   /\ block'.header.nonce.lo > block.header.nonce.lo
          /\ pc' = "panic" => ~SliceInRange(HashHeader(block.header), block.header)
      ]_vars
====
